---- MODULE Spec2Model ----
(***************************************************************************)
(* Model of the invitation mailer function of src/src/main.js.            *)
(*                                                                         *)
(* The file holds two revisions of the exported handler:                   *)
(*   - the (req, res) handler, lines 4-115   (handler kind "reqres")       *)
(*   - the (context) handler,  lines 121-275 (handler kind "context")      *)
(*                                                                         *)
(* An invocation is an async function: it runs without interruption up to  *)
(* its next await, so every action below is one such run (entry up to the  *)
(* first await, or the continuation of an await up to the next one or to   *)
(* the return).  The mail transport and the Appwrite SDK are external: the *)
(* outcome of transporter.verify(), of every transporter.sendMail() and of *)
(* the SDK client set-up is a nondeterministic choice.                     *)
(***************************************************************************)
EXTENDS Integers, Sequences, FiniteSets, TLC

\* ------------------------------------------------------------------------
\* Bounds of the model
\* ------------------------------------------------------------------------
\* longest emails array a request carries
MaxRecipients == 2

\* the recipient addresses requests draw from
Addresses == {"a@x.com", "b@x.com"}

\* invocation identifiers; Spec runs invocation 1 alone, SpecConc runs both
Invocations == {1, 2}

\* ------------------------------------------------------------------------
\* JavaScript values that reach the handlers
\* ------------------------------------------------------------------------
Undefined == [t |-> "undefined"]
JNull == [t |-> "null"]
Str(s) == [t |-> "string", str |-> s]
Arr(a) == [t |-> "array", items |-> a]
Obj(e, l, c) == [t |-> "object", emails |-> e, testLink |-> l, testCode |-> c]

\* !x for the values above
Falsy(x) == x.t \in {"undefined", "null"} \/ (x.t = "string" /\ x.str = "")

ArrayIsArray(x) == x.t = "array"

\* sequences over S of length lo..hi
SeqsOf(S, lo, hi) == UNION {[1..n -> S] : n \in lo..hi}

\* the text of a request payload, by what JSON.parse makes of it
JSONText(v) == [t |-> "text", empty |-> FALSE, wellFormed |-> TRUE, value |-> v]
EmptyText == [t |-> "text", empty |-> TRUE, wellFormed |-> FALSE, value |-> JNull]
MalformedText == [t |-> "text", empty |-> FALSE, wellFormed |-> FALSE, value |-> JNull]

\* !req.payload : undefined and the empty string are falsy
PayloadMissing(p) == p.t = "undefined" \/ (p.t = "text" /\ p.empty)

\* JSON.parse(text) throws a SyntaxError unless the text is well formed
JSONParseThrows(p) == ~p.wellFormed
JSONParse(p) == p.value

\* const { emails, testLink, testCode } = payload : throws a TypeError on
\* null, reads undefined properties from any other non-object
DestructureThrows(v) == v.t \in {"null", "undefined"}
Prop(v, name) ==
  IF v.t # "object" THEN Undefined
  ELSE IF name = "emails" THEN v.emails
  ELSE IF name = "testLink" THEN v.testLink
  ELSE v.testCode

\* ------------------------------------------------------------------------
\* Inputs
\* ------------------------------------------------------------------------
EmailsValues ==
  {Undefined, Str("a@x.com")} \cup {Arr(a) : a \in SeqsOf(Addresses, 0, MaxRecipients)}
LinkValues == {Undefined, Str(""), Str("https://t/1")}
CodeValues == {Undefined, Str(""), Str("ABC123")}

JSONValues ==
  {JNull, Str("hello")}
    \cup {Obj(e, l, c) : e \in EmailsValues, l \in LinkValues, c \in CodeValues}

Payloads == {Undefined, EmptyText, MalformedText} \cup {JSONText(v) : v \in JSONValues}

\* the response object handed to the handler:
\*   "ok"       has status() and json(), both work
\*   "nostatus" has json() but no status()
\*   "throws"   has both, json() throws
\*   "absent"   undefined
ResKinds == {"ok", "nostatus", "throws", "absent"}

HandlerKinds == {"reqres", "context"}

\* a request: is req there, what is res, what is req.payload
Requests == [reqPresent : BOOLEAN, res : ResKinds, payload : Payloads]

\* requests with a JSON object body, non-empty testLink and testCode, an
\* emails array and a working response object
WellFormedRequests ==
  {[reqPresent |-> TRUE, res |-> "ok",
    payload |-> JSONText(Obj(Arr(a), Str("https://t/1"), Str("ABC123")))] :
      a \in SeqsOf(Addresses, 0, MaxRecipients)}

NoRequest == [reqPresent |-> FALSE, res |-> "absent", payload |-> Undefined]

EnvNames ==
  {"APPWRITE_ENDPOINT", "APPWRITE_FUNCTION_PROJECT_ID", "APPWRITE_API_KEY",
   "EMAIL_USER", "EMAIL_APP_PASSWORD"}

\* process.env: "" stands for an unset variable
Environments == [EnvNames -> {"", "set"}]

VARIABLES
  env,          \* process.env, fixed for the life of the process
  pc,           \* pc[i]: "idle", "verifying", "sending" or "done"
  handler,      \* which revision of module.exports the process has loaded
  request,      \* request[i]: the arguments of the invocation
  verify,       \* verify[i]: transporter.verify(): "none", "pending", "fulfilled", "rejected"
  sends,        \* sends[i]: one record per transporter.sendMail() call, in call order
  emailResults, \* emailResults[i]: the values Promise.all has collected, by index
  returned,     \* returned[i]: the response bodies the handler has returned (0 or 1)
  escaped       \* escaped[i]: an exception left the handler

vars == <<env, pc, handler, request, verify, sends, emailResults, returned, escaped>>

\* ------------------------------------------------------------------------
\* What one run of the handler (up to its next await or its return) leaves
\* ------------------------------------------------------------------------
Step(p, r, e, v, s) == [pc |-> p, ret |-> r, esc |-> e, verify |-> v, sends |-> s]

\* calling json() on the response object works
ResJsonWorks(res) == res \in {"ok", "nostatus"}

\* the message of the error that calling json() raises otherwise
ResJsonError(res) ==
  IF res = "absent" THEN "Cannot read properties of undefined (reading 'json')"
  ELSE "response closed"

\* ---- the (context) handler ----------------------------------------------

\* top-level catch: return context.res.json({success: false, ...}); an
\* exception of this call is caught by nothing
ContextCatch(res, msg, v, s) ==
  IF ResJsonWorks(res)
  THEN Step("done",
            <<[success |-> FALSE, message |-> "Unexpected error: " \o msg,
               error |-> "stack"]>>, FALSE, v, s)
  ELSE Step("done", <<>>, TRUE, v, s)

\* return context.res.json(body) inside the try block
ContextJson(res, body, v, s) ==
  IF ResJsonWorks(res) THEN Step("done", <<body>>, FALSE, v, s)
  ELSE ContextCatch(res, ResJsonError(res), v, s)

\* mutant of ContextEnvMissing: EMAIL_APP_PASSWORD is not checked
ContextEnvMissingNoPassword(e) ==
  IF e["APPWRITE_ENDPOINT"] = "" \/ e["APPWRITE_FUNCTION_PROJECT_ID"] = ""
       \/ e["APPWRITE_API_KEY"] = ""
  THEN "Appwrite SDK configuration missing in environment variables"
  ELSE IF e["EMAIL_USER"] = ""
  THEN "Email configuration missing in environment variables"
  ELSE ""

\* both environment checks of the context handler
ContextEnvMissing(e) ==
  IF e["APPWRITE_ENDPOINT"] = "" \/ e["APPWRITE_FUNCTION_PROJECT_ID"] = ""
       \/ e["APPWRITE_API_KEY"] = ""
  THEN "Appwrite SDK configuration missing in environment variables"
  ELSE IF e["EMAIL_USER"] = "" \/ e["EMAIL_APP_PASSWORD"] = ""
  THEN "Email configuration missing in environment variables"
  ELSE ""

\* mutant of FieldsInvalid: the check of emails.length is left out
FieldsInvalidNoLengthCheck(emails, testLink, testCode) ==
  \/ ~ArrayIsArray(emails)
  \/ Falsy(testLink)
  \/ Falsy(testCode)

\* !Array.isArray(emails) || emails.length === 0 || !testLink || !testCode
FieldsInvalid(emails, testLink, testCode) ==
  \/ ~ArrayIsArray(emails)
  \/ Len(emails.items) = 0
  \/ Falsy(testLink)
  \/ Falsy(testCode)

\* the handler from its entry to the await of transporter.verify()
ContextHandlerEntry(rq, e, sdkThrows) ==
  IF ~rq.reqPresent \/ PayloadMissing(rq.payload)
  THEN ContextJson(rq.res, [success |-> FALSE, message |-> "No payload provided"],
                   "none", <<>>)
  ELSE IF JSONParseThrows(rq.payload)
  THEN ContextJson(rq.res, [success |-> FALSE, message |-> "Invalid JSON in payload"],
                   "none", <<>>)
  ELSE IF DestructureThrows(JSONParse(rq.payload))
  THEN ContextCatch(rq.res, "Cannot destructure property 'emails' of 'payload'",
                    "none", <<>>)
  ELSE IF FieldsInvalid(Prop(JSONParse(rq.payload), "emails"),
                        Prop(JSONParse(rq.payload), "testLink"),
                        Prop(JSONParse(rq.payload), "testCode"))
  THEN ContextJson(rq.res,
         [success |-> FALSE,
          message |-> "Missing required fields: emails (must be a non-empty array), testLink, or testCode"],
         "none", <<>>)
  ELSE IF ContextEnvMissing(e) # ""
  THEN ContextJson(rq.res, [success |-> FALSE, message |-> ContextEnvMissing(e)],
                   "none", <<>>)
  ELSE IF sdkThrows
  THEN ContextCatch(rq.res, "Invalid endpoint URL", "none", <<>>)
  ELSE Step("verifying", <<>>, FALSE, "pending", <<>>)

\* the message handed to transporter.sendMail() for one recipient
MailOptions(e, email, testLink, testCode) ==
  [from |-> e["EMAIL_USER"],
   to |-> email,
   subject |-> "Invitation to Participate in a Test",
   html |-> "<a href=\"" \o testLink \o "\">" \o testLink \o "</a> " \o testCode]

\* mutant of MapSendMail: an address that occurs twice is sent to once
MapSendMailDistinct(e, emails, testLink, testCode) ==
  LET F[n \in 0..Len(emails)] ==
        IF n = 0 THEN <<>>
        ELSE IF \E j \in 1..(n - 1) : emails[j] = emails[n] THEN F[n - 1]
        ELSE Append(F[n - 1],
                    [mail |-> MailOptions(e, emails[n], testLink, testCode),
                     state |-> "pending", info |-> ""])
  IN F[Len(emails)]

\* emails.map(...): every callback runs up to its sendMail() call, one call
\* per entry of emails, in order
MapSendMail(e, emails, testLink, testCode) ==
  [k \in 1..Len(emails) |->
     [mail |-> MailOptions(e, emails[k], testLink, testCode),
      state |-> "pending", info |-> ""]]

RequestEmails(rq) == Prop(JSONParse(rq.payload), "emails").items
RequestLink(rq) == Prop(JSONParse(rq.payload), "testLink").str
RequestCode(rq) == Prop(JSONParse(rq.payload), "testCode").str

\* mutant of ContextAfterVerify: the catch of verify() does not return
ContextAfterVerifyIgnored(rq, e, verified, msg) ==
  Step("sending", <<>>, FALSE, IF verified THEN "fulfilled" ELSE "rejected",
       MapSendMail(e, RequestEmails(rq), RequestLink(rq), RequestCode(rq)))

\* the handler from the settling of transporter.verify() to the await of
\* Promise.all; msg is the error's message when verify() rejected
ContextAfterVerify(rq, e, verified, msg) ==
  IF ~verified
  THEN ContextJson(rq.res,
         [success |-> FALSE,
          message |-> "Email configuration verification failed: " \o msg],
         "rejected", <<>>)
  ELSE Step("sending", <<>>, FALSE, "fulfilled",
            MapSendMail(e, RequestEmails(rq), RequestLink(rq), RequestCode(rq)))

\* mutant of ContextSendCallback: the failed outcome carries no error text
ContextSendCallbackNoMessage(send) ==
  IF send.state = "pending" THEN [state |-> "pending", value |-> JNull]
  ELSE IF send.state = "fulfilled"
  THEN [state |-> "fulfilled",
        value |-> [email |-> send.mail.to, success |-> TRUE, messageId |-> send.info]]
  ELSE [state |-> "fulfilled",
        value |-> [email |-> send.mail.to, success |-> FALSE, error |-> ""]]

\* mutant of ContextSendCallback: no try/catch around sendMail(), a failed
\* send rejects the callback's promise
ContextSendCallbackRethrow(send) ==
  IF send.state = "pending" THEN [state |-> "pending", value |-> JNull]
  ELSE IF send.state = "fulfilled"
  THEN [state |-> "fulfilled",
        value |-> [email |-> send.mail.to, success |-> TRUE, messageId |-> send.info]]
  ELSE [state |-> "rejected", value |-> JNull]

\* the promise of one async callback of emails.map once its sendMail() has
\* settled: the try/catch turns both outcomes into a returned outcome record
ContextSendCallback(send) ==
  IF send.state = "pending" THEN [state |-> "pending", value |-> JNull]
  ELSE IF send.state = "fulfilled"
  THEN [state |-> "fulfilled",
        value |-> [email |-> send.mail.to, success |-> TRUE, messageId |-> send.info]]
  ELSE [state |-> "fulfilled",
        value |-> [email |-> send.mail.to, success |-> FALSE, error |-> send.info]]

\* mutant of StoreResult: values are pushed in the order of completion
StoreResultPush(values, k, v) == ((Cardinality(DOMAIN values) + 1) :> v) @@ values

\* Promise.all keeps the value of the k-th promise at index k
StoreResult(values, k, v) == (k :> v) @@ values

\* Promise.all over promises in the given states
PromiseAll(ps) ==
  IF \E k \in DOMAIN ps : ps[k].state = "rejected" THEN "rejected"
  ELSE IF \A k \in DOMAIN ps : ps[k].state = "fulfilled" THEN "fulfilled"
  ELSE "pending"

\* emailResults.filter(result => result.success) and its negation
FilterBySuccess(results, flag) ==
  LET F[n \in 0..Cardinality(DOMAIN results)] ==
        IF n = 0 THEN <<>>
        ELSE IF results[n].success = flag THEN Append(F[n - 1], results[n])
        ELSE F[n - 1]
  IN F[Cardinality(DOMAIN results)]

\* the body of the final response of the context handler
ContextSummary(results, emails) ==
  [success |-> Len(FilterBySuccess(results, TRUE)) > 0,
   message |-> "Successfully sent " \o ToString(Len(FilterBySuccess(results, TRUE)))
                 \o " out of " \o ToString(Len(emails)) \o " invitations",
   details |-> [successful |-> FilterBySuccess(results, TRUE),
                failed |-> FilterBySuccess(results, FALSE)]]

\* the handler from the settling of Promise.all to its return; all is the
\* state of Promise.all, msg the message of the rejection if it rejected
ContextAfterSends(rq, all, msg, results, s) ==
  IF all = "fulfilled"
  THEN ContextJson(rq.res, ContextSummary(results, RequestEmails(rq)), "fulfilled", s)
  ELSE IF all = "rejected"
  THEN ContextCatch(rq.res, msg, "fulfilled", s)
  ELSE Step("sending", <<>>, FALSE, "fulfilled", s)

\* ---- the (req, res) handler ----------------------------------------------

\* top-level catch: answers 500 if res and res.status are there, else logs
ReqResCatch(res, msg, s) ==
  IF res = "ok"
  THEN Step("done",
            <<[status |-> 500, success |-> FALSE,
               message |-> "Failed to send invitations", error |-> msg]>>,
            FALSE, "none", s)
  ELSE IF res = "throws" THEN Step("done", <<>>, TRUE, "none", s)
  ELSE Step("done", <<>>, FALSE, "none", s)

\* return res.status(code).json(body) inside the try block
ReqResJson(res, body, s) ==
  IF res = "ok" THEN Step("done", <<body>>, FALSE, "none", s)
  ELSE IF res = "nostatus" THEN ReqResCatch(res, "res.status is not a function", s)
  ELSE ReqResCatch(res, ResJsonError(res), s)

\* the handler from its entry to the await of Promise.all
ReqResHandlerEntry(rq, e, sdkThrows) ==
  IF ~rq.reqPresent \/ rq.res = "absent"
  THEN Step("done", <<>>, FALSE, "none", <<>>)
  ELSE IF PayloadMissing(rq.payload)
  THEN ReqResJson(rq.res,
         [status |-> 400, success |-> FALSE, message |-> "No payload provided"], <<>>)
  ELSE IF JSONParseThrows(rq.payload)
  THEN ReqResJson(rq.res,
         [status |-> 400, success |-> FALSE, message |-> "Invalid JSON in payload"], <<>>)
  ELSE IF DestructureThrows(JSONParse(rq.payload))
  THEN ReqResCatch(rq.res, "Cannot destructure property 'emails' of 'payload'", <<>>)
  ELSE IF FieldsInvalid(Prop(JSONParse(rq.payload), "emails"),
                        Prop(JSONParse(rq.payload), "testLink"),
                        Prop(JSONParse(rq.payload), "testCode"))
  THEN ReqResJson(rq.res,
         [status |-> 400, success |-> FALSE,
          message |-> "Missing required fields: emails (must be a non-empty array), testLink, or testCode"],
         <<>>)
  ELSE IF sdkThrows
  THEN ReqResCatch(rq.res, "Invalid endpoint URL", <<>>)
  ELSE IF e["APPWRITE_ENDPOINT"] = "" \/ e["APPWRITE_FUNCTION_PROJECT_ID"] = ""
            \/ e["APPWRITE_API_KEY"] = ""
  THEN ReqResJson(rq.res,
         [status |-> 500, success |-> FALSE,
          message |-> "Appwrite SDK configuration missing in environment variables"], <<>>)
  ELSE IF e["EMAIL_USER"] = "" \/ e["EMAIL_APP_PASSWORD"] = ""
  THEN ReqResJson(rq.res,
         [status |-> 500, success |-> FALSE,
          message |-> "Email configuration missing in environment variables"], <<>>)
  ELSE Step("sending", <<>>, FALSE, "none",
            MapSendMail(e, RequestEmails(rq), RequestLink(rq), RequestCode(rq)))

\* the promise transporter.sendMail(...).catch(error => null)
ReqResSendCallback(send) ==
  IF send.state = "pending" THEN [state |-> "pending", value |-> JNull]
  ELSE IF send.state = "fulfilled"
  THEN [state |-> "fulfilled", value |-> [t |-> "info", messageId |-> send.info]]
  ELSE [state |-> "fulfilled", value |-> JNull]

\* the handler from the settling of Promise.all to its return
ReqResAfterSends(rq, all, msg, s) ==
  IF all = "fulfilled"
  THEN ReqResJson(rq.res,
         [status |-> 200, success |-> TRUE, message |-> "Invitations sent successfully"], s)
  ELSE IF all = "rejected"
  THEN ReqResCatch(rq.res, msg, s)
  ELSE Step("sending", <<>>, FALSE, "none", s)

\* ------------------------------------------------------------------------
\* The mail transport
\* ------------------------------------------------------------------------
VerifyErrors == {"Invalid login"}
SendErrors == {"Connection timeout"}

\* the identifier the transport gives the k-th message of invocation i
MessageId(i, k) == "<" \o ToString(i) \o "." \o ToString(k) \o "@mail>"

\* ------------------------------------------------------------------------
\* Actions
\* ------------------------------------------------------------------------
Init ==
  /\ env \in Environments
  /\ handler \in HandlerKinds
  /\ pc = [i \in Invocations |-> "idle"]
  /\ request = [i \in Invocations |-> NoRequest]
  /\ verify = [i \in Invocations |-> "none"]
  /\ sends = [i \in Invocations |-> <<>>]
  /\ emailResults = [i \in Invocations |-> <<>>]
  /\ returned = [i \in Invocations |-> <<>>]
  /\ escaped = [i \in Invocations |-> FALSE]

\* the state a run of invocation i leaves
Apply(i, r) ==
  /\ pc' = [pc EXCEPT ![i] = r.pc]
  /\ returned' = [returned EXCEPT ![i] = r.ret]
  /\ escaped' = [escaped EXCEPT ![i] = r.esc]
  /\ verify' = [verify EXCEPT ![i] = r.verify]
  /\ sends' = [sends EXCEPT ![i] = r.sends]

\* the host calls the exported function with request rq
Invoke(i, rq, sdkThrows) ==
  /\ pc[i] = "idle"
  /\ request' = [request EXCEPT ![i] = rq]
  /\ Apply(i, IF handler = "context" THEN ContextHandlerEntry(rq, env, sdkThrows)
              ELSE ReqResHandlerEntry(rq, env, sdkThrows))
  /\ UNCHANGED <<env, handler, emailResults>>

\* transporter.verify() settles and the handler resumes
VerifySettle(i, verified, msg) ==
  /\ pc[i] = "verifying"
  /\ verify[i] = "pending"
  /\ Apply(i, ContextAfterVerify(request[i], env, verified, msg))
  /\ UNCHANGED <<env, handler, request, emailResults>>

\* the promise of the k-th callback of invocation i, for its send record
SendCallback(send) ==
  IF handler = "context" THEN ContextSendCallback(send) ELSE ReqResSendCallback(send)

\* mutant of EmailResultsScope: emailResults is a variable of the module
EmailResultsShared(i) == 1

\* const emailResults is a local of the handler: every invocation has its own
EmailResultsScope(i) == i

\* the k-th sendMail() of invocation i settles; its callback resumes, and if
\* that settles Promise.all the handler resumes too
SendSettle(i, k, ok, msg) ==
  /\ k \in DOMAIN sends[i]
  /\ sends[i][k].state = "pending"
  /\ LET settled == [sends[i][k] EXCEPT
                       !.state = IF ok THEN "fulfilled" ELSE "rejected",
                       !.info = IF ok THEN MessageId(i, k) ELSE msg]
         s == [sends[i] EXCEPT ![k] = settled]
         cb == SendCallback(settled)
         all == PromiseAll([j \in DOMAIN s |-> SendCallback(s[j])])
         results == IF cb.state = "fulfilled"
                    THEN StoreResult(emailResults[EmailResultsScope(i)], k, cb.value)
                    ELSE emailResults[EmailResultsScope(i)]
     IN IF pc[i] = "sending"
        THEN /\ emailResults' = [emailResults EXCEPT ![EmailResultsScope(i)] = results]
             /\ Apply(i, IF handler = "context"
                         THEN ContextAfterSends(request[i], all, msg, results, s)
                         ELSE ReqResAfterSends(request[i], all, msg, s))
        ELSE /\ sends' = [sends EXCEPT ![i] = s]
             /\ UNCHANGED <<emailResults, pc, returned, escaped, verify>>
  /\ UNCHANGED <<env, handler, request>>

\* one invocation, any request
Next ==
  \E i \in {1} :
    \/ \E rq \in Requests, sdkThrows \in BOOLEAN : Invoke(i, rq, sdkThrows)
    \/ \E verified \in BOOLEAN, msg \in VerifyErrors : VerifySettle(i, verified, msg)
    \/ \E k \in 1..(MaxRecipients + 1), ok \in BOOLEAN, msg \in SendErrors :
         SendSettle(i, k, ok, msg)

Spec == Init /\ [][Next]_vars

\* two invocations in one process, well-formed requests
NextConc ==
  \E i \in Invocations :
    \/ \E rq \in WellFormedRequests, sdkThrows \in BOOLEAN : Invoke(i, rq, sdkThrows)
    \/ \E verified \in BOOLEAN, msg \in VerifyErrors : VerifySettle(i, verified, msg)
    \/ \E k \in 1..(MaxRecipients + 1), ok \in BOOLEAN, msg \in SendErrors :
         SendSettle(i, k, ok, msg)

SpecConc == Init /\ [][NextConc]_vars

\* ------------------------------------------------------------------------
\* Vocabulary of the properties
\* ------------------------------------------------------------------------
Started(i) == pc[i] # "idle"
Done(i) == pc[i] = "done"

\* calls made to the mail transport by invocation i: verify() and sendMail()
TransportCalls(i) == (IF verify[i] = "none" THEN 0 ELSE 1) + Len(sends[i])

\* the handler in use can answer on the response object of the request
CanAnswer(rq) ==
  IF handler = "context" THEN rq.res \in {"ok", "nostatus"}
  ELSE rq.reqPresent /\ rq.res = "ok"

\* the request body was parsed as JSON
BodyParsed(rq) ==
  /\ rq.reqPresent
  /\ rq.payload.t = "text"
  /\ ~rq.payload.empty
  /\ rq.payload.wellFormed
  /\ handler = "reqres" => rq.res # "absent"

\* a JSON value that carries a non-empty emails array and non-empty testLink
\* and testCode strings
UsableFields(v) ==
  /\ v.t = "object"
  /\ v.emails.t = "array" /\ v.emails.items # <<>>
  /\ v.testLink.t = "string" /\ v.testLink.str # ""
  /\ v.testCode.t = "string" /\ v.testCode.str # ""

ValidRequest(rq) == BodyParsed(rq) /\ UsableFields(rq.payload.value)

ConfigComplete == \A n \in EnvNames : env[n] # ""

\* invocation i has started its sends
Dispatched(i) == sends[i] # <<>>

Indices(i, st) == {k \in DOMAIN sends[i] : sends[i][k].state = st}

HasDetails(r) == "details" \in DOMAIN r

\* the subsequence of seq at the indices in idx, in the order of seq
Restrict(seq, idx) ==
  LET F[n \in 0..Len(seq)] ==
        IF n = 0 THEN <<>>
        ELSE IF n \in idx THEN Append(F[n - 1], seq[n])
        ELSE F[n - 1]
  IN F[Len(seq)]

\* C1: a request whose parsed payload lacks a usable emails, testLink or
\* testCode never reaches the mail transport (no verify, no send) and is never
\* answered with success = true; wherever the handler can answer on the
\* response object it returns exactly one response, with success = false.
C1_InvalidFieldsRejected ==
  \A i \in Invocations :
    (Started(i) /\ BodyParsed(request[i]) /\ ~UsableFields(request[i].payload.value))
      => /\ Done(i)
         /\ TransportCalls(i) = 0
         /\ \A n \in DOMAIN returned[i] : returned[i][n].success = FALSE
         /\ CanAnswer(request[i]) => Len(returned[i]) = 1

C1_Witness ==
  /\ handler = "context"
  /\ ConfigComplete
  /\ Done(1)
  /\ request[1].res = "ok"
  /\ BodyParsed(request[1])
  /\ request[1].payload.value = Obj(Arr(<<"a@x.com">>), Str("https://t/1"), Str(""))
  /\ Len(returned[1]) = 1
  /\ returned[1][1].success = FALSE

\* C2: an otherwise valid request, with one of the five configuration values
\* unset, makes no call to the mail transport (no verify, no send) and,
\* wherever the handler can answer, is answered once with success = false.
C2_MissingConfigShortCircuits ==
  \A i \in Invocations :
    (Started(i) /\ ValidRequest(request[i]) /\ ~ConfigComplete)
      => /\ Done(i)
         /\ TransportCalls(i) = 0
         /\ \A n \in DOMAIN returned[i] : returned[i][n].success = FALSE
         /\ CanAnswer(request[i]) => Len(returned[i]) = 1

C2_Witness ==
  /\ handler = "context"
  /\ env["EMAIL_APP_PASSWORD"] = ""
  /\ \A n \in EnvNames \ {"EMAIL_APP_PASSWORD"} : env[n] # ""
  /\ Done(1)
  /\ ValidRequest(request[1])
  /\ request[1].res = "ok"
  /\ TransportCalls(1) = 0
  /\ Len(returned[1]) = 1
  /\ returned[1][1].success = FALSE

\* C3: in every invocation that reached dispatch and returned a response, the
\* response-level success field is true if and only if at least one
\* recipient's send succeeded.
C3_SuccessIffSomeSendSucceeded ==
  \A i \in Invocations :
    (Done(i) /\ Dispatched(i) /\ Len(returned[i]) = 1)
      => (returned[i][1].success <=> Indices(i, "fulfilled") # {})

\* C4: the context handler produces exactly one outcome per entry of emails:
\* with N recipients of which k sends failed, details.successful has N-k
\* entries, details.failed has k, the message reports N-k out of N, every
\* failed entry carries a non-empty error, and every address appears among the
\* successful (failed) entries as often as it has succeeded (failed) sends.
C4_OneOutcomePerRecipient ==
  \A i \in Invocations :
    (handler = "context" /\ Done(i) /\ Dispatched(i) /\ CanAnswer(request[i]))
      => LET emails == request[i].payload.value.emails.items
             N == Len(emails)
             k == Cardinality(Indices(i, "rejected"))
             r == returned[i][1]
         IN /\ Len(returned[i]) = 1
            /\ HasDetails(r)
            /\ Len(r.details.successful) = N - k
            /\ Len(r.details.failed) = k
            /\ Len(r.details.successful) + Len(r.details.failed) = N
            /\ r.message = "Successfully sent " \o ToString(N - k) \o " out of "
                             \o ToString(N) \o " invitations"
            /\ \A n \in DOMAIN r.details.successful : r.details.successful[n].success
            /\ \A n \in DOMAIN r.details.failed :
                 /\ ~r.details.failed[n].success
                 /\ r.details.failed[n].error # ""
            /\ \A a \in Addresses :
                 /\ Cardinality({n \in DOMAIN r.details.successful :
                                   r.details.successful[n].email = a})
                      = Cardinality({j \in Indices(i, "fulfilled") : emails[j] = a})
                 /\ Cardinality({n \in DOMAIN r.details.failed :
                                   r.details.failed[n].email = a})
                      = Cardinality({j \in Indices(i, "rejected") : emails[j] = a})

\* a partial failure: two recipients, one send failed, the other succeeded
C4_Witness ==
  /\ handler = "context"
  /\ Done(1)
  /\ Len(sends[1]) = 2
  /\ sends[1][1].state = "rejected"
  /\ sends[1][2].state = "fulfilled"
  /\ Len(returned[1]) = 1
  /\ HasDetails(returned[1][1])
  /\ Len(returned[1][1].details.failed) = 1
  /\ Len(returned[1][1].details.successful) = 1

\* C5: every invocation that has finished has returned exactly one response
\* and let no exception escape, and that response is a failure whenever the
\* request was missing, malformed or not an object.
C5_NoExceptionEscapes ==
  \A i \in Invocations :
    Done(i) => /\ ~escaped[i]
               /\ Len(returned[i]) = 1
               /\ ~ValidRequest(request[i]) => returned[i][1].success = FALSE

\* C6: with two invocations in flight, the details of each response have as
\* many entries as the invocation's own emails, and every entry is the outcome
\* of one of the invocation's own sends.
C6_InvocationsIsolated ==
  \A i \in Invocations :
    (handler = "context" /\ Done(i) /\ Len(returned[i]) = 1 /\ HasDetails(returned[i][1]))
      => LET emails == request[i].payload.value.emails.items
             d == returned[i][1].details
         IN /\ Len(d.successful) + Len(d.failed) = Len(emails)
            /\ \A n \in DOMAIN d.successful :
                 \E k \in Indices(i, "fulfilled") :
                   /\ d.successful[n].email = emails[k]
                   /\ d.successful[n].messageId = sends[i][k].info
            /\ \A n \in DOMAIN d.failed :
                 \E k \in Indices(i, "rejected") :
                   /\ d.failed[n].email = emails[k]
                   /\ d.failed[n].error = sends[i][k].info

\* both invocations have answered, the first for two recipients, the second
\* for one other recipient
C6_Witness ==
  /\ handler = "context"
  /\ Done(1) /\ Done(2)
  /\ Len(sends[1]) = 2 /\ Len(sends[2]) = 1
  /\ sends[1][1].mail.to # sends[2][1].mail.to
  /\ Len(returned[1]) = 1 /\ HasDetails(returned[1][1])
  /\ Len(returned[2]) = 1 /\ HasDetails(returned[2][1])
  /\ Len(returned[1][1].details.successful) + Len(returned[1][1].details.failed) = 2
  /\ Len(returned[2][1].details.successful) + Len(returned[2][1].details.failed) = 1

\* C7: full barrier: an invocation that has returned a response, or finished
\* in any way, has no send pending.
C7_FullBarrier ==
  \A i \in Invocations :
    (Done(i) \/ Len(returned[i]) > 0 \/ escaped[i]) => Indices(i, "pending") = {}

\* a failed send did not end the wait: the first send failed while the second
\* was still pending and the handler had not answered
C7_Witness ==
  /\ Len(sends[1]) = 2
  /\ sends[1][1].state = "rejected"
  /\ sends[1][2].state = "pending"
  /\ pc[1] = "sending"
  /\ returned[1] = <<>>

\* C8: details.successful and details.failed list their outcomes in the order
\* of the request's emails, whatever order the sends completed in.
C8_OrderPreserved ==
  \A i \in Invocations :
    (handler = "context" /\ Done(i) /\ Len(returned[i]) = 1 /\ HasDetails(returned[i][1]))
      => LET emails == request[i].payload.value.emails.items
             ids == [k \in DOMAIN sends[i] |-> sends[i][k].info]
             d == returned[i][1].details
         IN /\ [n \in DOMAIN d.successful |-> d.successful[n].email]
                 = Restrict(emails, Indices(i, "fulfilled"))
            /\ [n \in DOMAIN d.successful |-> d.successful[n].messageId]
                 = Restrict(ids, Indices(i, "fulfilled"))
            /\ [n \in DOMAIN d.failed |-> d.failed[n].email]
                 = Restrict(emails, Indices(i, "rejected"))

\* two different recipients, both sent; the response lists them in request
\* order (which completion order led here is not part of the state: both do)
C8_Witness ==
  /\ handler = "context"
  /\ Done(1)
  /\ Len(sends[1]) = 2
  /\ sends[1][1].mail.to = "a@x.com"
  /\ sends[1][2].mail.to = "b@x.com"
  /\ Indices(1, "fulfilled") = {1, 2}
  /\ Len(returned[1]) = 1
  /\ HasDetails(returned[1][1])
  /\ returned[1][1].details.successful[1].email = "a@x.com"
  /\ returned[1][1].details.successful[2].email = "b@x.com"

\* C9: an invocation that reached dispatch has called sendMail exactly once
\* per entry of emails, the k-th call addressed to emails[k] (duplicates
\* included), and no later step adds a call: a failed send is not retried.
C9_OneSendPerRecipient ==
  /\ [](\A i \in Invocations :
          Dispatched(i) =>
            /\ Len(sends[i]) = Len(request[i].payload.value.emails.items)
            /\ \A k \in DOMAIN sends[i] :
                 sends[i][k].mail.to = request[i].payload.value.emails.items[k])
  /\ [][\A i \in Invocations :
          Dispatched(i) =>
            /\ Len(sends'[i]) = Len(sends[i])
            /\ \A k \in DOMAIN sends[i] : sends'[i][k].mail = sends[i][k].mail]_vars

\* the same address twice in emails: two sends, the first failed, the
\* invocation finished
C9_Witness ==
  /\ Done(1)
  /\ Len(sends[1]) = 2
  /\ sends[1][1].mail.to = sends[1][2].mail.to
  /\ sends[1][1].state = "rejected"

\* C10: in the context handler a send is made only after verification has
\* succeeded; when verification fails no send is made, the invocation ends,
\* and its response (wherever the handler can answer) is a failure without
\* details.
C10_VerifyGatesDispatch ==
  \A i \in Invocations :
    handler = "context" =>
      /\ Dispatched(i) => verify[i] = "fulfilled"
      /\ verify[i] = "rejected" =>
           /\ Done(i)
           /\ sends[i] = <<>>
           /\ \A n \in DOMAIN returned[i] :
                returned[i][n].success = FALSE /\ ~HasDetails(returned[i][n])
           /\ CanAnswer(request[i]) => Len(returned[i]) = 1

C10_Witness ==
  /\ handler = "context"
  /\ verify[1] = "rejected"
  /\ ValidRequest(request[1])
  /\ ConfigComplete
  /\ request[1].res = "ok"
  /\ Len(returned[1]) = 1
  /\ returned[1][1].success = FALSE

====
